---- MODULE Spec2Model ----
(***************************************************************************)
(* A model of DroneOptimizer (src/main.py): the parameter fields of one    *)
(* instance, the four model functions (calculate_mass,                     *)
(* calculate_flight_time, objective, constraints) and optimize(), which    *)
(* hands them to a library minimizer and repackages its answer.  The       *)
(* minimizer is not part of the program: its answer is left open.          *)
(*                                                                         *)
(* Numbers.  Python floats are modelled by exact rationals [n, d] in       *)
(* lowest terms with d > 0.  A numpy float64 division by zero does not     *)
(* raise: it yields inf, -inf or nan, written n/0 with n = 1, -1, 0.  A    *)
(* plain Python division by zero raises ZeroDivisionError, which is an     *)
(* outcome of its own (the exc field of an evaluation).                    *)
(***************************************************************************)
EXTENDS Integers, Sequences, FiniteSets

VARIABLES
    params,      \* the fields self.* set by __init__ (lines 21-34)
    pc,          \* position of the optimize() call: constructed, solving, minimized, returned
    solver,      \* the arguments of the running minimize() call
    solverCalls, \* how many times the current optimize() call has invoked minimize()
    res,         \* the OptimizeResult minimize() returned (success, x, message)
    result,      \* the dict optimize() returned last
    history,     \* the dicts returned by all optimize() calls so far, in order
    lastEval,    \* the most recent evaluation of a model function and its outcome
    solved       \* the minimize() calls made so far: arguments and answer

vars == <<params, pc, solver, solverCalls, res, result, history, lastEval, solved>>

----------------------------------------------------------------------------
(* Rational arithmetic.  The operations are functions of values, so that   *)
(* an operand is evaluated once however often its fields are read.         *)

Abs(i) == IF i < 0 THEN -i ELSE i

Sign(i) == IF i < 0 THEN -1 ELSE IF i = 0 THEN 0 ELSE 1

GCD[a \in Nat, b \in Nat] == IF b = 0 THEN a ELSE GCD[b, a % b]

Val == [n : Int, d : Nat]

\* n/d in lowest terms with a positive denominator; n/0 is inf, -inf or nan
NormOf[n \in Int, d \in Int] ==
    IF d = 0 THEN [n |-> Sign(n), d |-> 0]
    ELSE [n |-> Sign(d) * (n \div GCD[Abs(n), Abs(d)]),
          d |-> Abs(d) \div GCD[Abs(n), Abs(d)]]

Norm(n, d) == NormOf[n, d]

I(i) == [n |-> i, d |-> 1]

NaN == [n |-> 0, d |-> 0]

IsFinite(a) == a.d # 0

NegOf[a \in Val] == [n |-> -a.n, d |-> a.d]

RNeg(a) == NegOf[a]

MulOf[a \in Val, b \in Val] ==
    IF a.d # 0 /\ b.d # 0
    THEN [n |-> (a.n \div GCD[Abs(a.n), b.d]) * (b.n \div GCD[Abs(b.n), a.d]),
          d |-> (a.d \div GCD[Abs(b.n), a.d]) * (b.d \div GCD[Abs(a.n), b.d])]
    ELSE [n |-> Sign(a.n) * Sign(b.n), d |-> 0]

RMul(a, b) == MulOf[a, b]

AddOf[a \in Val, b \in Val] ==
    IF a.d # 0 /\ b.d # 0
    THEN NormOf[a.n * (b.d \div GCD[a.d, b.d]) + b.n * (a.d \div GCD[a.d, b.d]),
                (a.d \div GCD[a.d, b.d]) * b.d]
    ELSE IF a.d # 0 THEN b
    ELSE IF b.d # 0 THEN a
    ELSE IF a.n = b.n THEN a ELSE NaN

RAdd(a, b) == AddOf[a, b]

RSub(a, b) == AddOf[a, NegOf[b]]

\* float64 division: x/0 is inf or -inf, 0/0 is nan, x/inf is 0, and
\* anything divided by nan, like inf/inf, is nan
DivOf[a \in Val, b \in Val] ==
    IF b.d # 0 /\ b.n # 0 THEN MulOf[a, NormOf[b.d, b.n]]
    ELSE IF b.d # 0 THEN [n |-> Sign(a.n), d |-> 0]
    ELSE IF b.n = 0 THEN NaN
    ELSE IF a.d # 0 THEN I(0) ELSE NaN

RDiv(a, b) == DivOf[a, b]

\* a < b for finite a, b, by continued fractions (no cross products)
LessOf[a \in Val, b \in Val] ==
    IF a.n \div a.d # b.n \div b.d THEN a.n \div a.d < b.n \div b.d
    ELSE IF b.n % b.d = 0 THEN FALSE
    ELSE IF a.n % a.d = 0 THEN TRUE
    ELSE LessOf[[n |-> b.d, d |-> b.n % b.d], [n |-> a.d, d |-> a.n % a.d]]

RLess(a, b) == LessOf[a, b]

RLeq(a, b) == ~LessOf[b, a]

MaxOf[a \in Val, b \in Val] == IF LessOf[a, b] THEN b ELSE a

RMax(a, b) == MaxOf[a, b]

----------------------------------------------------------------------------
(* Outcomes of a Python call: a value, or an exception that propagates *)

Ok(v) == [exc |-> "none", val |-> v]

Raised(e) == [exc |-> e, val |-> NaN]

\* a / b where b is a plain Python float (raises) or a numpy float64 (np)
Divide(a, b, np) ==
    IF ~np /\ IsFinite(b) /\ b.n = 0 THEN Raised("ZeroDivisionError")
    ELSE Ok(RDiv(a, b))

----------------------------------------------------------------------------
(* The model functions.  p is the instance, x the value of x[0], and np    *)
(* tells whether x is a numpy array (as the solver passes it) or a list    *)
(* of plain Python numbers.                                                *)

\* line 44 (and 49, 85): k_battery * C_battery * Th + k_battery * C_battery + b
BatteryMass(p, x) ==
    RAdd(RAdd(RMul(RMul(p.k_battery, x), p.Th), RMul(p.k_battery, x)), p.b)

\* a slip: the battery mass subtracted from the airframe's
calculate_mass_Subtracting(p, x) ==
    RSub(RAdd(p.M_frame, p.M_electronics), BatteryMass(p, x))

calculate_mass(p, x) ==
    RAdd(RAdd(p.M_frame, p.M_electronics), BatteryMass(p, x))

FlightTimeWeight == 50

\* a slip: the ratio upside down (total mass over battery mass)
calculate_flight_time_Inverted(p, x, np) ==
    LET M_battery == BatteryMass(p, x)
        total_mass == calculate_mass(p, x)
        inv == Divide(I(1), p.prop_efficiency, FALSE)
    IN  IF inv.exc # "none" THEN inv
        ELSE Divide(RMul(p.battery_energy_density, total_mass),
                    RMul(RMul(p.prop_count, inv.val), M_battery), np)

calculate_flight_time(p, x, np) ==
    LET M_battery == BatteryMass(p, x)
        total_mass == calculate_mass(p, x)
        inv == Divide(I(1), p.prop_efficiency, FALSE)
    IN  IF inv.exc # "none" THEN inv
        ELSE Divide(RMul(p.battery_energy_density, M_battery),
                    RMul(RMul(p.prop_count, inv.val), total_mass), np)

\* a slip: the flight time added to the cost instead of subtracted
objective_AddingFlightTime(p, x, np) ==
    LET total_cost == RAdd(RAdd(p.C_frame, x), p.C_electronics)
        flight_time == calculate_flight_time(p, x, np)
    IN  IF flight_time.exc # "none" THEN flight_time
        ELSE Ok(RAdd(total_cost, RMul(I(FlightTimeWeight), flight_time.val)))

objective(p, x, np) ==
    LET total_cost == RAdd(RAdd(p.C_frame, x), p.C_electronics)
        flight_time == calculate_flight_time(p, x, np)
    IN  IF flight_time.exc # "none" THEN flight_time
        ELSE Ok(RSub(total_cost, RMul(I(FlightTimeWeight), flight_time.val)))

\* a slip: the two capacity bounds exchanged
constraints_SwappedBounds(p, x, np) ==
    LET total_mass == calculate_mass(p, x)
        flight_time == calculate_flight_time(p, x, np)
    IN  IF flight_time.exc # "none" THEN [exc |-> flight_time.exc, val |-> <<>>]
        ELSE [exc |-> "none",
              val |-> << RSub(p.max_total_weight, total_mass),
                         RSub(flight_time.val, p.min_flight_time),
                         RSub(x, p.max_battery_capacity),
                         RSub(p.min_battery_capacity, x) >>]

constraints(p, x, np) ==
    LET total_mass == calculate_mass(p, x)
        flight_time == calculate_flight_time(p, x, np)
    IN  IF flight_time.exc # "none" THEN [exc |-> flight_time.exc, val |-> <<>>]
        ELSE [exc |-> "none",
              val |-> << RSub(p.max_total_weight, total_mass),
                         RSub(flight_time.val, p.min_flight_time),
                         RSub(x, p.min_battery_capacity),
                         RSub(p.max_battery_capacity, x) >>]

----------------------------------------------------------------------------
(* The instances considered *)

\* the constants of the example at lines 103-118
ExampleConstants ==
    [ C_frame |-> I(1000), C_electronics |-> I(500),
      M_frame |-> I(2), M_electronics |-> I(1),
      k_battery |-> Norm(1, 10), Th |-> Norm(101, 100), b |-> Norm(1, 10),
      battery_energy_density |-> I(250),
      prop_efficiency |-> Norm(8, 10), prop_count |-> I(4),
      min_battery_capacity |-> I(16), max_battery_capacity |-> I(32),
      min_flight_time |-> I(10), max_total_weight |-> I(10) ]

\* battery coefficients <<k_battery, Th, b>>: the example's, and whole
\* numbers (total mass 2x + 4, zero at x = -2)
Coefficients ==
    { <<Norm(1, 10), Norm(101, 100), Norm(1, 10)>>,
      <<I(1), I(1), I(1)>> }

CapacityBoxes == { <<16, 32>>, <<22, 24>> }

\* __init__ checks nothing and accepts any number for any field: the example
\* with a battery that gets lighter as its capacity grows
NegativeSlope == [ExampleConstants EXCEPT !.k_battery = Norm(-1, 10)]

\* the example with a weight limit no capacity of the box meets
TightWeight == [ExampleConstants EXCEPT !.max_total_weight = Norm(1, 10)]

ParameterSets ==
    { [ExampleConstants EXCEPT
          !.k_battery = c[1], !.Th = c[2], !.b = c[3],
          !.min_battery_capacity = I(box[1]), !.max_battery_capacity = I(box[2])] :
      c \in Coefficients, box \in CapacityBoxes }
    \cup {NegativeSlope, TightWeight}

\* the model functions are probed at -XSpan..XSpan and at the ends of the box
XSpan == 4

\* optimize() is called at most MaxCalls times on one instance
MaxCalls == 2

ProbePoints(p) ==
    (-XSpan .. XSpan) \cup {p.min_battery_capacity.n, p.max_battery_capacity.n}

NoEval == [fn |-> "none", x |-> I(0), np |-> FALSE, exc |-> "none", out |-> <<>>]

Eval(fn, x, np, r) ==
    [fn |-> fn, x |-> x, np |-> np, exc |-> r.exc,
     out |-> IF r.exc # "none" THEN <<>>
             ELSE IF fn = "constraints" THEN r.val ELSE <<r.val>>]

NoSolver == [x0 |-> 0, bounds |-> <<>>, ftol |-> I(0), maxiter |-> 0]

NoRes == [success |-> FALSE, message |-> ""]

NoResult == [status |-> "none"]

Init ==
    /\ params \in ParameterSets
    /\ pc = "constructed"
    /\ solver = NoSolver
    /\ solverCalls = 0
    /\ res = NoRes
    /\ result = NoResult
    /\ history = <<>>
    /\ lastEval = NoEval
    /\ solved = {}

----------------------------------------------------------------------------
(* Direct calls of the model functions by the caller, between optimize()   *)
(* calls, with a list of plain numbers or with a numpy array               *)

Idle == pc \in {"constructed", "returned"}

CallMass ==
    /\ Idle
    /\ \E x \in ProbePoints(params), np \in BOOLEAN :
          lastEval' = Eval("calculate_mass", I(x), np, Ok(calculate_mass(params, I(x))))
    /\ UNCHANGED <<params, pc, solver, solverCalls, res, result, history, solved>>

CallFlightTime ==
    /\ Idle
    /\ \E x \in ProbePoints(params), np \in BOOLEAN :
          lastEval' = Eval("calculate_flight_time", I(x), np,
                           calculate_flight_time(params, I(x), np))
    /\ UNCHANGED <<params, pc, solver, solverCalls, res, result, history, solved>>

CallObjective ==
    /\ Idle
    /\ \E x \in ProbePoints(params), np \in BOOLEAN :
          lastEval' = Eval("objective", I(x), np, objective(params, I(x), np))
    /\ UNCHANGED <<params, pc, solver, solverCalls, res, result, history, solved>>

CallConstraints ==
    /\ Idle
    /\ \E x \in ProbePoints(params), np \in BOOLEAN :
          lastEval' = Eval("constraints", I(x), np, constraints(params, I(x), np))
    /\ UNCHANGED <<params, pc, solver, solverCalls, res, result, history, solved>>

----------------------------------------------------------------------------
(* result = minimize(self.objective, x0, method='SLSQP', bounds=bounds,    *)
(* constraints=cons, options=...), lines 71-78.  minimize is a library     *)
(* routine whose code is not part of the program.  The program fixes what  *)
(* it hands over (x0, the bounds, the options, and the objective and       *)
(* constraint functions, which the library calls back on numpy arrays at   *)
(* points of its choosing) and what it reads from the answer (success,     *)
(* x[0], message).  The answer itself is left open: either flag, any       *)
(* capacity, any text.  The one thing taken of the library is that it is   *)
(* a function of its arguments: a call with the arguments of an earlier    *)
(* call gives the answer of that call.                                     *)

X0 == 20

MaxIter == 1000

Ftol == Norm(1, 1000000)

\* x0, bounds and options of lines 67, 68 and 77
Arguments(p) ==
    [x0 |-> X0, bounds |-> <<p.min_battery_capacity, p.max_battery_capacity>>,
     ftol |-> Ftol, maxiter |-> MaxIter]

\* result.x[0] is any float: the points that cut the box into XParts equal
\* parts, its ends included, and the start, which may lie outside the box
XParts == 3

ResultPoints(p) ==
    LET lo == p.min_battery_capacity
        hi == p.max_battery_capacity
    IN  {RAdd(lo, RDiv(RMul(I(k), RSub(hi, lo)), I(XParts))) : k \in 0 .. XParts}
            \cup {I(X0)}

\* result.message: a text the program passes on unread, possibly empty
Messages == {"", "Inequality constraints incompatible"}

\* the answer as far as the program reads it: success and x[0] when success
\* is true (lines 80-83), success and message when it is false (lines 95-98)
OptimizeResults(p) ==
    {[success |-> TRUE, x |-> x] : x \in ResultPoints(p)}
        \cup {[success |-> FALSE, message |-> m] : m \in Messages}

\* the answers of the earlier calls with these functions and arguments
Answered(p, a) == {m.out : m \in {k \in solved : k.self = p /\ k.args = a}}

----------------------------------------------------------------------------
(* optimize(), lines 66-99 *)

\* lines 67-71: the arguments are built and minimize() is entered
OptimizeCall ==
    /\ Idle
    /\ Len(history) < MaxCalls
    /\ solver' = Arguments(params)
    /\ solverCalls' = 1
    /\ pc' = "solving"
    /\ res' = NoRes
    /\ UNCHANGED <<params, result, history, lastEval, solved>>

\* line 72: the library calls self.objective on a numpy array
SolverCallsObjective ==
    /\ pc = "solving"
    /\ \E x \in ProbePoints(params) :
          lastEval' = Eval("objective", I(x), TRUE, objective(params, I(x), TRUE))
    /\ UNCHANGED <<params, pc, solver, solverCalls, res, result, history, solved>>

\* line 69: the library calls one of the cons functions, each of which
\* evaluates self.constraints on the numpy array
SolverCallsConstraints ==
    /\ pc = "solving"
    /\ \E x \in ProbePoints(params) :
          lastEval' = Eval("constraints", I(x), TRUE, constraints(params, I(x), TRUE))
    /\ UNCHANGED <<params, pc, solver, solverCalls, res, result, history, solved>>

\* line 71: minimize() returns and its answer is bound to result
SolverReturn ==
    /\ pc = "solving"
    /\ \E o \in (IF Answered(params, solver) = {} THEN OptimizeResults(params)
                 ELSE Answered(params, solver)) :
          /\ res' = o
          /\ solved' = solved \cup {[self |-> params, args |-> solver, out |-> o]}
    /\ pc' = "minimized"
    /\ UNCHANGED <<params, solver, solverCalls, result, history, lastEval>>

\* the dict of lines 87-94 for the solver's x
Packaged(p, x) ==
    LET C_battery == x
    IN  [ status |-> "optimal",
          battery_capacity |-> C_battery,
          battery_mass |-> BatteryMass(p, C_battery),
          total_mass |-> calculate_mass(p, C_battery),
          flight_time |-> calculate_flight_time(p, C_battery, TRUE).val,
          total_cost |-> RAdd(RAdd(p.C_frame, C_battery), p.C_electronics) ]

\* lines 82-83: the last model function the success branch calls
ReportEval ==
    IF res.success
    THEN Eval("calculate_flight_time", res.x, TRUE,
              calculate_flight_time(params, res.x, TRUE))
    ELSE lastEval

\* a slip: a failed solve started again from the other end of the box
Report_Retrying ==
    /\ pc = "minimized"
    /\ IF res.success
       THEN /\ result' = Packaged(params, res.x)
            /\ history' = Append(history, result')
            /\ pc' = "returned"
            /\ UNCHANGED <<solver, solverCalls>>
       ELSE /\ solver' = [solver EXCEPT !.x0 = solver.bounds[2].n]
            /\ solverCalls' = solverCalls + 1
            /\ pc' = IF solverCalls < 2 THEN "solving" ELSE "returned"
            /\ result' = [status |-> "not feasible", message |-> res.message]
            /\ history' = IF solverCalls < 2 THEN history ELSE Append(history, result')
    /\ lastEval' = ReportEval
    /\ UNCHANGED <<params, res, solved>>

\* a slip: the solution kept on the instance as the new upper bound
Report_StoringSolution ==
    /\ pc = "minimized"
    /\ result' = IF res.success THEN Packaged(params, res.x)
                 ELSE [status |-> "not feasible", message |-> res.message]
    /\ params' = [params EXCEPT !.max_battery_capacity = res.x]
    /\ lastEval' = ReportEval
    /\ history' = Append(history, result')
    /\ pc' = "returned"
    /\ UNCHANGED <<solver, solverCalls, res, solved>>

\* a slip: the electronics cost left out of the total
Report_WithoutElectronics ==
    /\ pc = "minimized"
    /\ result' = IF res.success
                 THEN [Packaged(params, res.x) EXCEPT
                          !.total_cost = RAdd(params.C_frame, res.x)]
                 ELSE [status |-> "not feasible", message |-> res.message]
    /\ lastEval' = ReportEval
    /\ history' = Append(history, result')
    /\ pc' = "returned"
    /\ UNCHANGED <<params, solver, solverCalls, res, solved>>

\* lines 80-99
Report ==
    /\ pc = "minimized"
    /\ result' = IF res.success THEN Packaged(params, res.x)
                 ELSE [status |-> "not feasible", message |-> res.message]
    /\ lastEval' = ReportEval
    /\ history' = Append(history, result')
    /\ pc' = "returned"
    /\ UNCHANGED <<params, solver, solverCalls, res, solved>>

Next ==
    \/ CallMass
    \/ CallFlightTime
    \/ CallObjective
    \/ CallConstraints
    \/ OptimizeCall
    \/ SolverCallsObjective
    \/ SolverCallsConstraints
    \/ SolverReturn
    \/ Report

Spec == Init /\ [][Next]_vars

----------------------------------------------------------------------------
(* Properties *)

Returned == pc = "returned"

Box(p) == p.min_battery_capacity.n .. p.max_battery_capacity.n

InBox(p, x) == RLeq(p.min_battery_capacity, x) /\ RLeq(x, p.max_battery_capacity)

Positive(a) == RLess(I(0), a)

NonNegative(a) == RLeq(I(0), a)

\* the validity the data model assumes: positive masses, costs and
\* efficiencies, and min <= max
ValidParameters(p) ==
    /\ Positive(p.M_frame) /\ Positive(p.M_electronics)
    /\ Positive(p.C_frame) /\ Positive(p.C_electronics)
    /\ Positive(p.prop_efficiency)
    /\ RLeq(p.min_battery_capacity, p.max_battery_capacity)

\* a battery whose mass does not fall below zero on non-negative capacities
NonNegativeBattery(p) ==
    /\ NonNegative(p.k_battery) /\ NonNegative(p.Th) /\ NonNegative(p.b)
    /\ NonNegative(p.min_battery_capacity)

\* C3: one optimize() call goes constructed -> solving -> one of the two
\* outcomes; minimize() is invoked exactly once per call, a failed solve is
\* reported as it is without another solver run, and the call ends: while
\* minimize() runs the program only answers its callbacks, and once it has
\* returned the next step returns one of the two dicts.
C3_SingleShot ==
    /\ [][ /\ pc' # pc =>
                <<pc, pc'>> \in { <<"constructed", "solving">>, <<"returned", "solving">>,
                                  <<"solving", "minimized">>, <<"minimized", "returned">> }
           /\ (pc # "solving" /\ pc' = "solving") => solverCalls' = 1
           /\ pc \in {"solving", "minimized"} => solverCalls' = solverCalls
           /\ (pc = "minimized" /\ pc' # pc) =>
                /\ result'.status = (IF res.success THEN "optimal" ELSE "not feasible")
                /\ Len(history') = Len(history) + 1
           /\ (pc = "solving" /\ pc' = "solving") =>
                /\ lastEval'.np /\ lastEval'.exc = "none"
                /\ solver' = solver /\ result' = result /\ history' = history
         ]_vars
    /\ [](Returned => solverCalls = 1 /\ result.status \in {"optimal", "not feasible"})
    /\ [](pc = "minimized" => result = (IF history = <<>> THEN NoResult
                                        ELSE history[Len(history)]))

C3_Witness ==
    Returned /\ ~res.success /\ result.status = "not feasible" /\ solverCalls = 1

\* C4: two optimize() calls on the same instance return the same dict, and no
\* step of optimize() or of a model function changes a parameter field.
C4_Idempotent ==
    /\ [](\A i, j \in 1 .. Len(history) : history[i] = history[j])
    /\ [][params' = params]_vars

C4_Witness ==
    /\ Len(history) = 2 /\ history[1].status = "optimal"
    /\ history[2] = history[1]

\* the mass just computed for a capacity of the box is positive
EvaluatedMassPositive ==
    (lastEval.fn = "calculate_mass" /\ InBox(params, lastEval.x)) =>
        Positive(lastEval.out[1])

MassPositiveInBox ==
    /\ \A x \in Box(params) : Positive(calculate_mass(params, I(x)))
    /\ EvaluatedMassPositive

\* C5 as stated: for every valid parameter set and every x in the box,
\* calculate_mass(x) > 0.
C5_Original == ValidParameters(params) => EvaluatedMassPositive

\* C5 amended: for every valid parameter set whose k_battery, Th, b and
\* min_battery_capacity are non-negative and every x in the box,
\* calculate_mass(x) > 0.
C5_MassPositive ==
    (ValidParameters(params) /\ NonNegativeBattery(params)) => MassPositiveInBox

C5_Witness ==
    /\ ValidParameters(params) /\ NonNegativeBattery(params)
    /\ lastEval.fn = "calculate_mass" /\ lastEval.x = params.min_battery_capacity
    /\ Positive(lastEval.out[1])

\* the flight time just evaluated at x1 is at most the flight time at x2
NotAboveAt(x2) ==
    LET t2 == calculate_flight_time(params, I(x2), TRUE).val
    IN  (IsFinite(lastEval.out[1]) /\ IsFinite(t2)) => RLeq(lastEval.out[1], t2)

FlightTimeEvaluated == lastEval.fn = "calculate_flight_time" /\ lastEval.exc = "none"

\* C6 as stated: with positive battery_energy_density, x1 <= x2 implies
\* calculate_flight_time(x1) <= calculate_flight_time(x2), for any capacities
\* (here even with non-negative battery coefficients).
C6_Original ==
    (FlightTimeEvaluated /\ Positive(params.battery_energy_density)
        /\ ValidParameters(params) /\ NonNegativeBattery(params)) =>
        \A x2 \in ProbePoints(params) : RLeq(lastEval.x, I(x2)) => NotAboveAt(x2)

\* C6 amended: with positive battery_energy_density and prop_count, a valid
\* parameter set and non-negative k_battery and Th, x1 <= x2 implies
\* calculate_flight_time(x1) <= calculate_flight_time(x2) whenever
\* calculate_mass(x1) > 0.
C6_MonotoneWherePositive ==
    (FlightTimeEvaluated /\ Positive(params.battery_energy_density)
        /\ ValidParameters(params) /\ Positive(params.prop_count)
        /\ NonNegative(params.k_battery) /\ NonNegative(params.Th)
        /\ Positive(calculate_mass(params, lastEval.x))) =>
        \A x2 \in ProbePoints(params) \cup Box(params) :
            RLeq(lastEval.x, I(x2)) =>
                /\ IsFinite(calculate_flight_time(params, I(x2), TRUE).val)
                /\ NotAboveAt(x2)

C6_Witness ==
    /\ FlightTimeEvaluated /\ lastEval.x = params.min_battery_capacity
    /\ NonNegative(params.k_battery)
    /\ Positive(calculate_mass(params, lastEval.x))
    /\ RLess(lastEval.out[1],
             calculate_flight_time(params, params.max_battery_capacity, TRUE).val)

\* C7: constraints(x)[2] = x - min_battery_capacity and constraints(x)[3] =
\* max_battery_capacity - x (counted from 0) are both >= 0 exactly when x lies
\* in the box handed to the solver as bounds, and at x = min_battery_capacity
\* the lower one is exactly 0.
C7_CapacityConstraints ==
    /\ (lastEval.fn = "constraints" /\ lastEval.exc = "none") =>
          LET x == lastEval.x
              lo == params.min_battery_capacity
              hi == params.max_battery_capacity
          IN  /\ lastEval.out[3] = RSub(x, lo)
              /\ lastEval.out[4] = RSub(hi, x)
              /\ (NonNegative(lastEval.out[3]) /\ NonNegative(lastEval.out[4]))
                    <=> (RLeq(lo, x) /\ RLeq(x, hi))
              /\ x = lo => lastEval.out[3] = I(0)
    /\ pc \in {"solving", "minimized"} =>
          solver.bounds = <<params.min_battery_capacity, params.max_battery_capacity>>

C7_Witness ==
    /\ lastEval.fn = "constraints" /\ lastEval.exc = "none"
    /\ lastEval.x = params.min_battery_capacity
    /\ lastEval.out[3] = I(0)
    /\ pc = "solving"

\* C8: the model, objective and constraint functions raise no exception for
\* any finite x; where calculate_mass(x) = 0 the division yields a value
\* (not-a-number) instead of raising.
C8_NoException == lastEval.exc = "none"

\* C9: on success the result is the model at the solver's x (battery_capacity
\* = x, battery_mass = k*x*Th + k*x + b, total_mass = M_frame + M_electronics +
\* battery_mass, flight_time = calculate_flight_time(x), total_cost = C_frame +
\* x + C_electronics, so total_cost - 50*flight_time = objective(x)); on failure
\* it holds only the failure tag and the solver's message.
C9_Repackaging ==
    Returned =>
        IF res.success
        THEN LET x == res.x
                 mb == RAdd(RAdd(RMul(RMul(params.k_battery, x), params.Th),
                                 RMul(params.k_battery, x)), params.b)
             IN  /\ DOMAIN result = {"status", "battery_capacity", "battery_mass",
                                     "total_mass", "flight_time", "total_cost"}
                 /\ result.status = "optimal"
                 /\ result.battery_capacity = x
                 /\ result.battery_mass = mb
                 /\ result.total_mass = RAdd(RAdd(params.M_frame, params.M_electronics), mb)
                 /\ result.total_mass = calculate_mass(params, x)
                 /\ result.flight_time = calculate_flight_time(params, x, TRUE).val
                 /\ result.total_cost = RAdd(RAdd(params.C_frame, x), params.C_electronics)
                 /\ RSub(result.total_cost, RMul(I(50), result.flight_time))
                       = objective(params, x, TRUE).val
        ELSE /\ DOMAIN result = {"status", "message"}
             /\ result.status = "not feasible"
             /\ result.message = res.message

C9_Witness ==
    /\ Returned /\ res.success /\ result.status = "optimal"
    /\ result.total_cost = RAdd(I(1500), result.battery_capacity)

\* the same instance with a cheaper frame
CheaperFrame(p) == [p EXCEPT !.C_frame = RSub(@, I(100))]

\* C10: objective(x) = (C_frame + C_electronics + x) - 50 * flight time, the
\* flight time being battery_energy_density * batteryMass(x) /
\* ((prop_count / prop_efficiency) * calculate_mass(x)); so of two candidates
\* of equal cost the one that flies longer has the lower objective, and of
\* two of equal flight time the cheaper one has the lower objective.
C10_ObjectiveFormula ==
    (lastEval.fn = "objective" /\ lastEval.exc = "none") =>
        LET p == params
            x == lastEval.x
            mb == RAdd(RAdd(RMul(RMul(p.k_battery, x), p.Th), RMul(p.k_battery, x)), p.b)
            ft == RDiv(RMul(p.battery_energy_density, mb),
                       RMul(RDiv(p.prop_count, p.prop_efficiency), calculate_mass(p, x)))
        IN  /\ lastEval.out[1] =
                  RSub(RAdd(RAdd(p.C_frame, p.C_electronics), x), RMul(I(50), ft))
            /\ ft = calculate_flight_time(p, x, lastEval.np).val
            /\ IsFinite(ft) =>
                  /\ \A q \in ParameterSets :
                        \A t \in {calculate_flight_time(q, x, TRUE).val} :
                            (IsFinite(t) /\ RLess(ft, t)) =>
                                RLess(objective(q, x, TRUE).val, lastEval.out[1])
                  /\ RLess(objective(CheaperFrame(p), x, TRUE).val, lastEval.out[1])

C10_Witness ==
    /\ lastEval.fn = "objective" /\ lastEval.exc = "none" /\ ~lastEval.np
    /\ lastEval.x = params.max_battery_capacity
    /\ IsFinite(lastEval.out[1])

====
